---- MODULE Spec2Model ----
(***************************************************************************)
(* Model of app/processor.py of stock-backtest-liquidity:                  *)
(*   validate_input_message   (processor.py:17-34)                         *)
(*   compute_liquidity_signal (processor.py:37-63)                         *)
(*                                                                         *)
(* Python floats are IEEE-754 binary64 values.  They are modelled bit for  *)
(* bit: a positive float is its binary exponent and its 53-bit             *)
(* significand, and division, addition, comparison and round(x, 4) are     *)
(* computed on those with round-to-nearest, ties-to-even, as CPython does. *)
(* Decimal quantities are written in micro-units (1 unit = 10^-6), so that *)
(* every number TLC handles fits its 32-bit integers.                      *)
(***************************************************************************)
EXTENDS Integers, Sequences, FiniteSets, TLC

(***************************************************************************)
(* Program constants (the literals of compute_liquidity_signal).           *)
(***************************************************************************)
Million == 1000000
DefaultAvgVolume == 1000000
DefaultTurnoverMicro == 800000
Threshold == 2
NDigits == 4
MantBits == 53

(***************************************************************************)
(* Natural numbers of any size: a sequence of limbs in base 2^8, least     *)
(* significant first, without leading zero limbs (0 is the empty           *)
(* sequence).  No intermediate value exceeds 2^31.                         *)
(***************************************************************************)
RECURSIVE Pow(_, _)
Pow(b, n) == IF n = 0 THEN 1 ELSE b * Pow(b, n - 1)

Pow2 == [k \in 0..30 |-> Pow(2, k)]

Base == Pow2[8]

BitLen8 == [x \in 0..(Base - 1) |-> Cardinality({k \in 0..7 : Pow2[k] <= x})]

Zeros(n) == [i \in 1..n |-> 0]

Limb(l, i) == IF i >= 1 /\ i <= Len(l) THEN l[i] ELSE 0

BigStrip(l) ==
    LET nz == {i \in 1..Len(l) : l[i] # 0}
    IN IF nz = {} THEN <<>>
       ELSE SubSeq(l, 1, CHOOSE i \in nz : \A j \in nz : j <= i)

BigFromInt(n) == BigStrip([i \in 1..4 |-> (n \div Pow2[8 * (i - 1)]) % Base])

BigToInt(l) == Limb(l, 1) + Pow2[8] * Limb(l, 2) + Pow2[16] * Limb(l, 3) + Pow2[24] * Limb(l, 4)

BigBitLen(l) == IF l = <<>> THEN 0 ELSE 8 * (Len(l) - 1) + BitLen8[l[Len(l)]]

RECURSIVE AddLimbs(_, _, _, _)
AddLimbs(a, b, i, c) ==
    IF i > Len(a) /\ i > Len(b) THEN (IF c = 0 THEN <<>> ELSE <<c>>)
    ELSE LET s == Limb(a, i) + Limb(b, i) + c
         IN <<s % Base>> \o AddLimbs(a, b, i + 1, s \div Base)

BigAdd(a, b) == AddLimbs(a, b, 1, 0)

\* a * k for a natural number k < 2^22.
RECURSIVE MulLimbs(_, _, _, _)
MulLimbs(a, k, i, c) ==
    IF i > Len(a) THEN BigFromInt(c)
    ELSE LET s == a[i] * k + c
         IN <<s % Base>> \o MulLimbs(a, k, i + 1, s \div Base)

BigMul(a, k) == IF a = <<>> \/ k = 0 THEN <<>> ELSE MulLimbs(a, k, 1, 0)

\* a * 2^k, floor(a / 2^k), bit k of a, a mod 2^k # 0.
BigShl(a, k) == IF a = <<>> THEN <<>> ELSE Zeros(k \div 8) \o BigMul(a, Pow2[k % 8])

BigShr(a, k) ==
    LET q == k \div 8
        r == k % 8
    IN BigStrip([i \in 1..(IF Len(a) > q THEN Len(a) - q ELSE 0) |->
                   (a[q + i] \div Pow2[r]) + (Limb(a, q + i + 1) % Pow2[r]) * Pow2[8 - r]])

BigBit(a, k) == (Limb(a, k \div 8 + 1) \div Pow2[k % 8]) % 2

BigLow(a, k) ==
    \/ \E i \in 1..(k \div 8) : Limb(a, i) # 0
    \/ Limb(a, k \div 8 + 1) % Pow2[k % 8] # 0

BigLess(a, b) ==
    IF Len(a) # Len(b) THEN Len(a) < Len(b)
    ELSE LET D == {i \in 1..Len(a) : a[i] # b[i]}
         IN D # {} /\ LET j == CHOOSE i \in D : \A k \in D : k <= i IN a[j] < b[j]

(***************************************************************************)
(* binary64.  FZero is 0.0; any other value is [exp, man] with man the     *)
(* 53-bit significand, 2^52 <= man < 2^53, and value man * 2^(exp - 52).   *)
(* Only non-negative finite values in the normal range are represented.    *)
(***************************************************************************)
FZero == [exp |-> 0, man |-> <<>>]

IsZero(x) == x.man = <<>>

\* The binary64 nearest to n * 2^e + (a positive amount below 2^e if sticky):
\* round-to-nearest, ties-to-even.  With sticky, n has more than MantBits bits.
Rounded(n, e, sticky) ==
    LET len == BigBitLen(n)
        k   == len - MantBits
    IN IF k <= 0 THEN [exp |-> e + len - 1, man |-> BigShl(n, 0 - k), exact |-> ~sticky]
       ELSE LET keep  == BigShr(n, k)
                guard == BigBit(n, k - 1) = 1
                rest  == sticky \/ BigLow(n, k - 1)
                up    == guard /\ (rest \/ BigBit(keep, 0) = 1)
                inc   == IF up THEN BigAdd(keep, <<1>>) ELSE keep
                over  == BigBitLen(inc) > MantBits
            IN [exp   |-> e + len - 1 + (IF over THEN 1 ELSE 0),
                man   |-> IF over THEN BigShr(inc, 1) ELSE inc,
                exact |-> ~guard /\ ~rest]

Float(r) == [exp |-> r.exp, man |-> r.man]

\* k base-2^8 quotient digits of the fraction r/d (r < d <= Million), most
\* significant first, and the remainder.
RECURSIVE DivDigits(_, _, _)
DivDigits(r, d, k) ==
    IF k = 0 THEN [digits |-> <<>>, rem |-> r]
    ELSE LET rest == DivDigits((r * Base) % d, d, k - 1)
         IN [digits |-> <<(r * Base) \div d>> \o rest.digits, rem |-> rest.rem]

\* n/d to 80 fractional bits, rounded to binary64 (n > 0, 0 < d <= Million).
RatioRounded(n, d) ==
    LET q == DivDigits(n % d, d, 10)
        f == [i \in 1..10 |-> q.digits[11 - i]]
    IN Rounded(BigStrip(f \o BigFromInt(n \div d)), 0 - 80, q.rem # 0)

\* The binary64 nearest to n/d (n >= 0, 0 < d <= Million): what int/int true
\* division and the conversion of a decimal literal both produce.
FromRatio(n, d) == IF n = 0 THEN FZero ELSE Float(RatioRounded(n, d))

\* Whether n/d is a binary64 value itself (the conversion is exact).
RatioIsExact(n, d) == n = 0 \/ RatioRounded(n, d).exact

\* x + y, correctly rounded.
FAdd(x, y) ==
    IF IsZero(x) THEN y
    ELSE IF IsZero(y) THEN x
    ELSE LET hi == IF x.exp >= y.exp THEN x ELSE y
             lo == IF x.exp >= y.exp THEN y ELSE x
         IN Float(Rounded(BigAdd(BigShl(hi.man, hi.exp - lo.exp), lo.man),
                          lo.exp - (MantBits - 1), FALSE))

\* x < y, x >= y
FLess(x, y) ==
    IF IsZero(y) THEN FALSE
    ELSE IF IsZero(x) THEN TRUE
    ELSE IF x.exp # y.exp THEN x.exp < y.exp
    ELSE BigLess(x.man, y.man)

FGe(x, y) == ~FLess(x, y)

\* x * 10^nd: its integer part, and whether its fractional part is >= 1/2
\* (half) and # 1/2 (more).
Scaled(x, nd) ==
    LET p  == BigMul(x.man, Pow(10, nd))
        fb == (MantBits - 1) - x.exp     \* fractional bits of p
    IN IF IsZero(x) THEN [int |-> 0, half |-> FALSE, more |-> FALSE]
       ELSE IF fb <= 0 THEN [int |-> BigToInt(BigShl(p, 0 - fb)), half |-> FALSE, more |-> FALSE]
       ELSE [int  |-> BigToInt(BigShr(p, fb)),
             half |-> BigBit(p, fb - 1) = 1,
             more |-> BigLow(p, fb - 1)]

\* Mutant: ties are rounded up.
PyRoundHalfUp(x, nd) ==
    LET sc == Scaled(x, nd)
    IN IF sc.half THEN sc.int + 1 ELSE sc.int

\* round(x, nd) of CPython (float.__round__ with ndigits): the exact value of
\* x is rounded to nd decimals, ties to even.  The result is the count k of
\* units of 10^-nd; the float returned is the binary64 nearest to k / 10^nd.
PyRound(x, nd) ==
    LET sc == Scaled(x, nd)
    IN IF ~sc.half THEN sc.int
       ELSE IF sc.more THEN sc.int + 1
       ELSE IF sc.int % 2 = 0 THEN sc.int ELSE sc.int + 1

(***************************************************************************)
(* Python values.  A str is its sequence of characters; a float is named   *)
(* by a decimal literal in micro-units: PyFloat(u) is the binary64 nearest *)
(* to u / 10^6.  Negative numbers, nan, inf and exponent notation are      *)
(* outside the modelled inputs.                                            *)
(***************************************************************************)
PyInt(n) == [t |-> "int", v |-> n]
PyFloat(u) == [t |-> "float", v |-> u]
PyStr(s) == [t |-> "str", v |-> s]
PyNone == [t |-> "none"]
PyDict(m) == [t |-> "dict", v |-> m]
Text(s) == [t |-> "text", v |-> s]

DigitChars == <<"0", "1", "2", "3", "4", "5", "6", "7", "8", "9">>

IsDigit(c) == \E i \in 1..10 : DigitChars[i] = c

DigitVal(c) == (CHOOSE i \in 1..10 : DigitChars[i] = c) - 1

IsDigits(s) == s # <<>> /\ \A i \in 1..Len(s) : IsDigit(s[i])

RECURSIVE ParseNat(_)
ParseNat(s) ==
    IF s = <<>> THEN 0
    ELSE 10 * ParseNat(SubSeq(s, 1, Len(s) - 1)) + DigitVal(s[Len(s)])

\* A decimal literal: digits, or digits "." digits (at most 6 of them).
DotAt(s) == {i \in 1..Len(s) : s[i] = "."}

IsDecimal(s) ==
    \/ IsDigits(s)
    \/ \E i \in DotAt(s) :
          /\ IsDigits(SubSeq(s, 1, i - 1))
          /\ IsDigits(SubSeq(s, i + 1, Len(s)))
          /\ Len(s) - i <= 6

ParseMicro(s) ==
    IF IsDigits(s) THEN ParseNat(s) * Million
    ELSE LET i == CHOOSE j \in DotAt(s) : TRUE
         IN ParseNat(SubSeq(s, 1, i - 1)) * Million
            + ParseNat(SubSeq(s, i + 1, Len(s))) * Pow(10, 6 - (Len(s) - i))

Exc(type, text) == [type |-> type, args |-> <<Text(text)>>]

Value(x) == [ok |-> TRUE, val |-> x]
Raise(e) == [ok |-> FALSE, exc |-> e]

\* Mutant: a value int() rejects is replaced by the default.
CoerceIntLenient(v) ==
    CASE v.t = "int"   -> Value(v.v)
      [] v.t = "float" -> Value(v.v \div Million)
      [] v.t = "str"   -> IF IsDigits(v.v) THEN Value(ParseNat(v.v)) ELSE Value(DefaultAvgVolume)
      [] OTHER         -> Value(DefaultAvgVolume)

\* int(v)
CoerceInt(v) ==
    CASE v.t = "int"   -> Value(v.v)
      [] v.t = "float" -> Value(v.v \div Million)
      [] v.t = "str"   -> IF IsDigits(v.v) THEN Value(ParseNat(v.v))
                          ELSE Raise(Exc("ValueError", "invalid literal for int() with base 10"))
      [] OTHER         -> Raise(Exc("TypeError", "int() argument must be a string, a bytes-like object or a real number"))

\* float(v)
CoerceFloat(v) ==
    CASE v.t = "int"   -> Value(FromRatio(v.v, 1))
      [] v.t = "float" -> Value(FromRatio(v.v, Million))
      [] v.t = "str"   -> IF IsDecimal(v.v) THEN Value(FromRatio(ParseMicro(v.v), Million))
                          ELSE Raise(Exc("ValueError", "could not convert string to float"))
      [] OTHER         -> Raise(Exc("TypeError", "float() argument must be a string or a real number"))

\* message.get(k, default)
DictGet(m, k, default) == IF k \in DOMAIN m THEN m[k] ELSE default

\* {**a, **b}
Merge(a, b) == [k \in DOMAIN a \cup DOMAIN b |-> IF k \in DOMAIN b THEN b[k] ELSE a[k]]

(***************************************************************************)
(* The statements of compute_liquidity_signal.                             *)
(***************************************************************************)
UNKNOWN == <<"U", "N", "K", "N", "O", "W", "N">>
LIQUID == <<"L", "I", "Q", "U", "I", "D">>
ILLIQUID == <<"I", "L", "L", "I", "Q", "U", "I", "D">>

GetSymbol(m) == DictGet(m, "symbol", PyStr(UNKNOWN))

\* Mutant: a missing avg_volume counts as 0.
GetAvgVolumeZero(m) == DictGet(m, "avg_volume", PyInt(0))

GetAvgVolume(m) == DictGet(m, "avg_volume", PyInt(DefaultAvgVolume))

GetTurnoverRatio(m) == DictGet(m, "turnover_ratio", PyFloat(DefaultTurnoverMicro))

\* Mutant: "%" typed for "/".
ScoreModulo(avg_volume, turnover_ratio) ==
    FAdd(FromRatio(avg_volume % Million, Million), turnover_ratio)

\* score = (avg_volume / 1_000_000) + turnover_ratio
ScoreOf(avg_volume, turnover_ratio) == FAdd(FromRatio(avg_volume, Million), turnover_ratio)

\* Mutant: the rounded score is compared with the threshold.
SignalOfRounded(score) ==
    IF FGe(FromRatio(PyRound(score, NDigits), Pow(10, NDigits)), FromRatio(Threshold, 1))
    THEN LIQUID ELSE ILLIQUID

\* signal = "LIQUID" if score >= 2 else "ILLIQUID"
SignalOf(score) == IF FGe(score, FromRatio(Threshold, 1)) THEN LIQUID ELSE ILLIQUID

\* round(score, 4), as the float it returns
RoundedScore(score) == PyFloat(PyRound(score, NDigits) * Pow(10, 6 - NDigits))

\* result = {"liquidity_score": ..., "liquidity_signal": ...}
ResultOf(score, signal) ==
    [k \in {"liquidity_score", "liquidity_signal"} |->
        IF k = "liquidity_score" THEN RoundedScore(score) ELSE PyStr(signal)]

\* Mutant: {**result, **message}.
ReturnMergedReversed(h, ref, result) ==
    [heap |-> Append(h, Merge(result, h[ref])), ref |-> Len(h) + 1]

\* Mutant: message.update(result); return message.
ReturnUpdated(h, ref, result) ==
    [heap |-> [h EXCEPT ![ref] = Merge(@, result)], ref |-> ref]

\* return {**message, **result}: a new dict is allocated and returned.
ReturnMerged(h, ref, result) ==
    [heap |-> Append(h, Merge(h[ref], result)), ref |-> Len(h) + 1]

\* Mutant: the test of the schema predicate's answer is inverted.
ValidateResultInverted(ok, ref) ==
    IF ok THEN Raise(Exc("ValueError", "Invalid message format")) ELSE Value(ref)

\* Mutant: the failure is logged but not raised.
ValidateResultSilent(ok, ref) == Value(ref)

\* The branch of validate_input_message on the schema predicate's answer.
ValidateResult(ok, ref) ==
    IF ~ok THEN Raise(Exc("ValueError", "Invalid message format")) ELSE Value(ref)

\* Mutant: the local variables are module-level variables.
LocalsShared(w) == "w1"

\* The frame that holds a call's local variables: one per call.
LocalsOf(w) == w

(***************************************************************************)
(* Bounds and input sets.                                                  *)
(***************************************************************************)
MaxCalls == 3

Procs == {"w1", "w2"}

ABC == <<"A", "B", "C">>
NotANumber == <<"n", "o", "t", "_", "a", "_", "n", "u", "m", "b", "e", "r">>

AvgVolumeValues ==
    { PyInt(0), PyInt(1000000), PyInt(1199999), PyInt(1200000), PyInt(1500000),
      PyInt(2000000), PyFloat(2000500000),
      PyStr(<<"1", "5", "0", "0", "0", "0", "0">>), PyStr(<<"1", ".", "5">>),
      PyStr(NotANumber), PyNone }

TurnoverValues ==
    { PyFloat(0), PyFloat(31250), PyFloat(93750), PyFloat(333330), PyFloat(800000),
      PyFloat(800050), PyInt(1), PyStr(<<"0", ".", "8">>), PyStr(NotANumber), PyNone }

StaleFields ==
    [k \in {"liquidity_score", "liquidity_signal"} |->
        IF k = "liquidity_score" THEN PyFloat(9900000) ELSE PyStr(LIQUID)]

Field(k, v) == [x \in {k} |-> v]

Empty == [x \in {} |-> PyNone]

Messages ==
    { Merge(Merge(Merge(sy, av), tr), st) :
        sy \in {Empty, Field("symbol", PyStr(ABC))},
        av \in {Empty} \cup {Field("avg_volume", v) : v \in AvgVolumeValues},
        tr \in {Empty} \cup {Field("turnover_ratio", v) : v \in TurnoverValues},
        st \in {Empty, StaleFields} }

\* The messages of the two-thread runs.
ConcMessages ==
    << Merge(Field("symbol", PyStr(ABC)),
             Merge(Field("avg_volume", PyInt(1200000)), Field("turnover_ratio", PyFloat(800000)))),
       Field("avg_volume", PyStr(NotANumber)) >>

\* What the caller may later store in a result it was given.
CallerEdits == { Field("liquidity_signal", PyStr(ABC)) }

(***************************************************************************)
(* State.                                                                  *)
(***************************************************************************)
VARIABLES
    workers,    \* the caller's threads
    heap,       \* the dict objects: heap[r] is the content of object r
    owner,      \* owner[r] is the thread the caller gave object r to
    pc,         \* per thread: where its call stands
    call,       \* per thread: the function called, its argument and the
                \* argument's content at the call
    locals,     \* per frame: the local variables of compute_liquidity_signal
    out,        \* per thread: what the call returned or raised
    schema,     \* the answers validate_message_schema has given
    validated,  \* the objects validate_input_message has returned
    log,        \* the records handed to the logger
    hist,       \* the calls completed and collected
    ncalls      \* the number of calls made

vars == <<workers, heap, owner, pc, call, locals, out, schema, validated, log, hist, ncalls>>

NoCall == [fn |-> "", arg |-> 0, snap |-> Empty, nobj |-> 0]

NoLocals ==
    [symbol |-> PyNone, avg_volume |-> 0, turnover_ratio |-> FZero,
     score |-> FZero, signal |-> <<>>, result |-> Empty]

NoOut == [kind |-> "none"]

Returned(ref, val) == [kind |-> "return", ref |-> ref, val |-> val]

Raised(e) == [kind |-> "raise", exc |-> e]

LogRecord(level, fmt, args) == [level |-> level, fmt |-> fmt, args |-> args]

\* validate_message_schema: a pure predicate whose rules are not part of
\* this module.  Its answer for a message is chosen when the message is
\* first asked about and is the same ever after.
SchemaAnswers(m) == IF m \in DOMAIN schema THEN {schema[m]} ELSE BOOLEAN

SchemaWith(m, ok) == IF m \in DOMAIN schema THEN schema ELSE schema @@ (m :> ok)

Init ==
    /\ workers = {"w1"}
    /\ \E m \in Messages : heap = <<m>>
    /\ owner = <<"w1">>
    /\ pc = [w \in Procs |-> "idle"]
    /\ call = [w \in Procs |-> NoCall]
    /\ locals = [w \in Procs |-> NoLocals]
    /\ out = [w \in Procs |-> NoOut]
    /\ schema = [x \in {} |-> TRUE]
    /\ validated = {}
    /\ log = <<>>
    /\ hist = {}
    /\ ncalls = 0

\* Two threads, each given a message that validate_input_message has
\* already returned to the caller.
InitConc ==
    /\ workers = Procs
    /\ \E i, j \in 1..Len(ConcMessages) :
          /\ i <= j
          /\ heap = <<ConcMessages[i], ConcMessages[j]>>
          /\ schema = [m \in {ConcMessages[i], ConcMessages[j]} |-> TRUE]
          /\ hist = { [fn |-> "validate_input_message", msg |-> m,
                       out |-> [kind |-> "return", val |-> m]] :
                      m \in {ConcMessages[i], ConcMessages[j]} }
    /\ owner = <<"w1", "w2">>
    /\ pc = [w \in Procs |-> "idle"]
    /\ call = [w \in Procs |-> NoCall]
    /\ locals = [w \in Procs |-> NoLocals]
    /\ out = [w \in Procs |-> NoOut]
    /\ validated = {1, 2}
    /\ log = << LogRecord("DEBUG", "Validating message schema...", <<>>),
                LogRecord("DEBUG", "Validating message schema...", <<>>) >>
    /\ ncalls = 0

(***************************************************************************)
(* validate_input_message                                                  *)
(***************************************************************************)
ValidateCall(w, r) ==
    /\ pc[w] = "idle"
    /\ ncalls < MaxCalls
    /\ owner[r] = w
    /\ pc' = [pc EXCEPT ![w] = "validate"]
    /\ call' = [call EXCEPT ![w] = [fn |-> "validate_input_message", arg |-> r,
                                    snap |-> heap[r], nobj |-> Len(heap)]]
    /\ ncalls' = ncalls + 1
    /\ UNCHANGED <<workers, heap, owner, locals, out, schema, validated, log, hist>>

\* lines 30-34
ValidateBody(w) ==
    /\ pc[w] = "validate"
    /\ LET r == call[w].arg
           m == heap[r]
       IN \E ok \in SchemaAnswers(m) :
            LET res == ValidateResult(ok, r)
                dbg == LogRecord("DEBUG", "Validating message schema...", <<>>)
                err == LogRecord("ERROR", "Invalid message schema: %s", <<PyDict(m)>>)
            IN /\ schema' = SchemaWith(m, ok)
               /\ log' = IF ok THEN log \o <<dbg>> ELSE log \o <<dbg, err>>
               /\ out' = [out EXCEPT ![w] = IF res.ok THEN Returned(res.val, heap[res.val])
                                            ELSE Raised(res.exc)]
               /\ pc' = [pc EXCEPT ![w] = IF res.ok THEN "returned" ELSE "raised"]
               /\ validated' = IF res.ok THEN validated \cup {res.val} ELSE validated
    /\ UNCHANGED <<workers, heap, owner, call, locals, hist, ncalls>>

(***************************************************************************)
(* compute_liquidity_signal                                                *)
(***************************************************************************)
ComputeCall(w, r) ==
    /\ pc[w] = "idle"
    /\ ncalls < MaxCalls
    /\ owner[r] = w
    /\ r \in validated
    /\ pc' = [pc EXCEPT ![w] = "read"]
    /\ call' = [call EXCEPT ![w] = [fn |-> "compute_liquidity_signal", arg |-> r,
                                    snap |-> heap[r], nobj |-> Len(heap)]]
    /\ locals' = [locals EXCEPT ![LocalsOf(w)] = NoLocals]
    /\ ncalls' = ncalls + 1
    /\ UNCHANGED <<workers, heap, owner, out, schema, validated, log, hist>>

\* lines 47-49
ComputeRead(w) ==
    /\ pc[w] = "read"
    /\ LET m  == heap[call[w].arg]
           av == CoerceInt(GetAvgVolume(m))
           tr == CoerceFloat(GetTurnoverRatio(m))
       IN IF ~av.ok
          THEN /\ out' = [out EXCEPT ![w] = Raised(av.exc)]
               /\ pc' = [pc EXCEPT ![w] = "raised"]
               /\ locals' = [locals EXCEPT ![LocalsOf(w)].symbol = GetSymbol(m)]
          ELSE IF ~tr.ok
          THEN /\ out' = [out EXCEPT ![w] = Raised(tr.exc)]
               /\ pc' = [pc EXCEPT ![w] = "raised"]
               /\ locals' = [locals EXCEPT ![LocalsOf(w)].symbol = GetSymbol(m),
                                           ![LocalsOf(w)].avg_volume = av.val]
          ELSE /\ out' = out
               /\ pc' = [pc EXCEPT ![w] = "score"]
               /\ locals' = [locals EXCEPT ![LocalsOf(w)].symbol = GetSymbol(m),
                                           ![LocalsOf(w)].avg_volume = av.val,
                                           ![LocalsOf(w)].turnover_ratio = tr.val]
    /\ UNCHANGED <<workers, heap, owner, call, schema, validated, log, hist, ncalls>>

\* lines 51-60
ComputeScore(w) ==
    /\ pc[w] = "score"
    /\ LET l      == locals[LocalsOf(w)]
           score  == ScoreOf(l.avg_volume, l.turnover_ratio)
           signal == SignalOf(score)
       IN /\ log' = Append(log, LogRecord("INFO", "Computing liquidity signal for %s", <<l.symbol>>))
          /\ locals' = [locals EXCEPT ![LocalsOf(w)].score = score,
                                      ![LocalsOf(w)].signal = signal,
                                      ![LocalsOf(w)].result = ResultOf(score, signal)]
    /\ pc' = [pc EXCEPT ![w] = "merge"]
    /\ UNCHANGED <<workers, heap, owner, call, out, schema, validated, hist, ncalls>>

\* lines 62-63
ComputeReturn(w) ==
    /\ pc[w] = "merge"
    /\ LET l == locals[LocalsOf(w)]
           r == ReturnMerged(heap, call[w].arg, l.result)
       IN /\ log' = Append(log, LogRecord("DEBUG", "Liquidity result for %s: %s", <<l.symbol, PyDict(l.result)>>))
          /\ heap' = r.heap
          /\ owner' = Append(owner, w)
          /\ out' = [out EXCEPT ![w] = Returned(r.ref, r.heap[r.ref])]
    /\ pc' = [pc EXCEPT ![w] = "returned"]
    /\ UNCHANGED <<workers, call, locals, schema, validated, hist, ncalls>>

(***************************************************************************)
(* The caller.                                                             *)
(***************************************************************************)
\* The caller changes the dict compute_liquidity_signal gave it.
CallerEdit(w, e) ==
    /\ pc[w] = "returned"
    /\ call[w].fn = "compute_liquidity_signal"
    /\ \A v \in Procs \ {w} : pc[v] # "idle" => call[v].arg # out[w].ref
    /\ heap' = [heap EXCEPT ![out[w].ref] = Merge(@, e)]
    /\ validated' = validated \ {out[w].ref}
    /\ pc' = [pc EXCEPT ![w] = "edited"]
    /\ UNCHANGED <<workers, owner, call, locals, out, schema, log, hist, ncalls>>

\* The caller takes the outcome; the call's frame is gone.
Collect(w) ==
    /\ pc[w] \in {"returned", "raised", "edited"}
    /\ hist' = hist \cup {[fn |-> call[w].fn, msg |-> call[w].snap,
                           out |-> IF out[w].kind = "return"
                                   THEN [kind |-> "return", val |-> out[w].val]
                                   ELSE [kind |-> "raise", val |-> out[w].exc]]}
    /\ pc' = [pc EXCEPT ![w] = "idle"]
    /\ call' = [call EXCEPT ![w] = NoCall]
    /\ out' = [out EXCEPT ![w] = NoOut]
    /\ locals' = [locals EXCEPT ![LocalsOf(w)] = NoLocals]
    /\ UNCHANGED <<workers, heap, owner, schema, validated, log, ncalls>>

Next ==
    \/ \E w \in workers, r \in 1..Len(heap) : ValidateCall(w, r)
    \/ \E w \in workers : ValidateBody(w)
    \/ \E w \in workers, r \in 1..Len(heap) : ComputeCall(w, r)
    \/ \E w \in workers : ComputeRead(w)
    \/ \E w \in workers : ComputeScore(w)
    \/ \E w \in workers : ComputeReturn(w)
    \/ \E w \in workers, e \in CallerEdits : CallerEdit(w, e)
    \/ \E w \in workers : Collect(w)

Spec == Init /\ [][Next]_vars

SpecConc == InitConc /\ [][Next]_vars
(***************************************************************************)
(* compute_liquidity_signal run from entry to exit on a message, with      *)
(* nothing else running: what it returns or raises.                        *)
(***************************************************************************)
ComputeAlone(m) ==
    LET av == CoerceInt(GetAvgVolume(m))
        tr == CoerceFloat(GetTurnoverRatio(m))
    IN IF ~av.ok THEN [kind |-> "raise", val |-> av.exc]
       ELSE IF ~tr.ok THEN [kind |-> "raise", val |-> tr.exc]
       ELSE LET score == ScoreOf(av.val, tr.val)
            IN [kind |-> "return",
                val  |-> ReturnMerged(<<m>>, 1, ResultOf(score, SignalOf(score))).heap[2]]

(***************************************************************************)
(* Vocabulary of the properties.                                           *)
(***************************************************************************)
IsValidate(w) == call[w].fn = "validate_input_message"
IsCompute(w) == call[w].fn = "compute_liquidity_signal"
Finished(w) == pc[w] \in {"returned", "raised"}

\* What a finished call gave its caller.
Outcome(w) ==
    IF out[w].kind = "return" THEN [kind |-> "return", val |-> out[w].val]
    ELSE [kind |-> "raise", val |-> out[w].exc]

\* The decimal value, in micro-units, of a number or of a decimal literal.
MicroOf(v) ==
    CASE v.t = "int"   -> v.v * Million
      [] v.t = "float" -> v.v
      [] v.t = "str"   -> ParseMicro(v.v)

\* The exact decimal score avg_volume / 10^6 + turnover_ratio of a finished
\* computation, in micro-units.
DecimalScore(w) == locals[w].avg_volume + MicroOf(GetTurnoverRatio(call[w].snap))

StoredScore(w) == out[w].val["liquidity_score"]
StoredSignal(w) == out[w].val["liquidity_signal"]

Carries(e, m) == \E i \in 1..Len(e.args) : e.args[i].t = "dict" /\ e.args[i].v = m

NotIntLike(v) == v.t = "none" \/ (v.t = "str" /\ ~IsDigits(v.v))
NotFloatLike(v) == v.t = "none" \/ (v.t = "str" /\ ~IsDecimal(v.v))

Uncoercible(m) ==
    \/ "avg_volume" \in DOMAIN m /\ NotIntLike(m["avg_volume"])
    \/ "turnover_ratio" \in DOMAIN m /\ NotFloatLike(m["turnover_ratio"])

Computed == {"liquidity_score", "liquidity_signal"}

\* C1: a message the schema predicate accepts is returned by
\* validate_input_message as the very same object, keys and values unchanged.
C1_ValidIdentity ==
    \A w \in Procs :
        (IsValidate(w) /\ Finished(w) /\ schema[call[w].snap])
        => /\ pc[w] = "returned"
           /\ out[w].kind = "return"
           /\ out[w].ref = call[w].arg
           /\ out[w].val = call[w].snap
           /\ heap[out[w].ref] = call[w].snap

C1_Witness ==
    \E w \in Procs :
        /\ IsValidate(w) /\ pc[w] = "returned" /\ schema[call[w].snap]
        /\ {"symbol", "avg_volume", "turnover_ratio"} \subseteq DOMAIN call[w].snap

\* C2 as stated: a message the schema predicate rejects makes
\* validate_input_message fail with an invalid-format error that carries the
\* message.
C2_ErrorCarriesMessage ==
    \A w \in Procs :
        (IsValidate(w) /\ Finished(w) /\ ~schema[call[w].snap])
        => /\ pc[w] = "raised"
           /\ out[w].kind = "raise"
           /\ Carries(out[w].exc, call[w].snap)

\* C2 as amended: a message the schema predicate rejects makes
\* validate_input_message return nothing and fail with
\* ValueError("Invalid message format"); the error holds that text only, and
\* the message is handed to the logger in the error-level record.
C2_ErrorAndLog ==
    \A w \in Procs :
        (IsValidate(w) /\ Finished(w) /\ ~schema[call[w].snap])
        => /\ pc[w] = "raised"
           /\ out[w] = Raised([type |-> "ValueError", args |-> <<Text("Invalid message format")>>])
           /\ ~Carries(out[w].exc, call[w].snap)
           /\ \E i \in 1..Len(log) :
                 /\ log[i].level = "ERROR"
                 /\ log[i].args = <<PyDict(call[w].snap)>>

C2_Witness ==
    \E w \in Procs :
        /\ IsValidate(w) /\ pc[w] = "raised" /\ ~schema[call[w].snap]
        /\ "avg_volume" \in DOMAIN call[w].snap

\* C3: the signal is "LIQUID" exactly when avg_volume / 10^6 + turnover_ratio,
\* not rounded, is at least 2 (2 itself included); avg_volume = 1,199,999 with
\* turnover_ratio = 0.8 is "ILLIQUID" though its stored score is 2.0.
C3_Threshold ==
    \A w \in Procs :
        (IsCompute(w) /\ pc[w] = "returned")
        => /\ StoredSignal(w) \in {PyStr(LIQUID), PyStr(ILLIQUID)}
           /\ (StoredSignal(w) = PyStr(LIQUID)) <=> (DecimalScore(w) >= 2 * Million)
           /\ (locals[w].avg_volume = 1199999 /\ DecimalScore(w) = 1999999)
              => (StoredSignal(w) = PyStr(ILLIQUID) /\ StoredScore(w) = PyFloat(2000000))

C3_Witness ==
    \E w \in Procs :
        /\ IsCompute(w) /\ pc[w] = "returned"
        /\ locals[w].avg_volume = 1199999 /\ DecimalScore(w) = 1999999
        /\ StoredSignal(w) = PyStr(ILLIQUID) /\ StoredScore(w) = PyFloat(2000000)

\* C4: the result has the keys of the message plus liquidity_score and
\* liquidity_signal; every other key keeps the message's value, and the two
\* hold the computed values, whatever the message held under them.
C4_Frame ==
    \A w \in Procs :
        (IsCompute(w) /\ pc[w] = "returned")
        => /\ heap[out[w].ref] = out[w].val
           /\ DOMAIN out[w].val = DOMAIN call[w].snap \cup Computed
           /\ \A k \in DOMAIN call[w].snap \ Computed : out[w].val[k] = call[w].snap[k]
           /\ \A k \in Computed : out[w].val[k] = locals[w].result[k]

C4_Witness ==
    \E w \in Procs :
        /\ IsCompute(w) /\ pc[w] = "returned"
        /\ Computed \subseteq DOMAIN call[w].snap
        /\ "symbol" \in DOMAIN call[w].snap
        /\ StoredScore(w) # call[w].snap["liquidity_score"]
        /\ StoredSignal(w) # call[w].snap["liquidity_signal"]

\* C5: with the other input fixed, a larger avg_volume, and a larger
\* turnover_ratio, never give a smaller liquidity_score.
ProbeSteps == {1, 50, 500000}

StoredFor(a, u) == RoundedScore(ScoreOf(a, FromRatio(u, Million))).v

C5_Monotone ==
    \A w \in Procs :
        (IsCompute(w) /\ pc[w] = "returned")
        => LET a == locals[w].avg_volume
               u == DecimalScore(w) - a
           IN \A d \in ProbeSteps :
                 /\ StoredFor(a + d, u) >= StoredScore(w).v
                 /\ StoredFor(a, u + d) >= StoredScore(w).v

C5_Witness ==
    \E w \in Procs :
        /\ IsCompute(w) /\ pc[w] = "returned"
        /\ locals[w].avg_volume = 1500000
        /\ StoredFor(2000000, DecimalScore(w) - 1500000) > StoredScore(w).v

\* C6: a missing avg_volume counts as 1,000,000 and a missing turnover_ratio
\* as 0.8, each on its own: with neither key the score is 1.8 and the signal
\* "ILLIQUID", and with one key missing the outcome is that of the message
\* with the default written in.
WithKey(m, k, v) == [x \in DOMAIN m \cup {k} |-> IF x = k THEN v ELSE m[x]]

SameOutcome(w, o) ==
    /\ Outcome(w).kind = o.kind
    /\ IF o.kind = "raise" THEN Outcome(w).val = o.val
       ELSE \A k \in Computed : Outcome(w).val[k] = o.val[k]

C6_Defaults ==
    \A w \in Procs :
        (IsCompute(w) /\ Finished(w))
        => LET m == call[w].snap
           IN /\ ("avg_volume" \notin DOMAIN m /\ "turnover_ratio" \notin DOMAIN m)
                 => /\ pc[w] = "returned"
                    /\ StoredScore(w) = PyFloat(1800000)
                    /\ StoredSignal(w) = PyStr(ILLIQUID)
              /\ "avg_volume" \notin DOMAIN m
                 => SameOutcome(w, ComputeAlone(WithKey(m, "avg_volume", PyInt(1000000))))
              /\ "turnover_ratio" \notin DOMAIN m
                 => SameOutcome(w, ComputeAlone(WithKey(m, "turnover_ratio", PyFloat(800000))))

C6_Witness ==
    \E w \in Procs :
        /\ IsCompute(w) /\ pc[w] = "returned"
        /\ "avg_volume" \notin DOMAIN call[w].snap
        /\ "turnover_ratio" \in DOMAIN call[w].snap
        /\ StoredSignal(w) = PyStr(LIQUID)

\* C7: an avg_volume or turnover_ratio that is present and cannot be coerced
\* makes compute_liquidity_signal raise; no dict is built or returned.
C7_CoercionRaises ==
    \A w \in Procs :
        (IsCompute(w) /\ Finished(w) /\ Uncoercible(call[w].snap))
        => /\ pc[w] = "raised"
           /\ out[w].kind = "raise"
           /\ out[w].exc.type \in {"ValueError", "TypeError"}
           /\ Len(heap) = call[w].nobj

C7_Witness ==
    \E w \in Procs :
        /\ IsCompute(w) /\ pc[w] = "raised"
        /\ "avg_volume" \in DOMAIN call[w].snap
        /\ call[w].snap["avg_volume"] = PyStr(NotANumber)
        /\ "turnover_ratio" \in DOMAIN call[w].snap

\* C8: during and after a call the argument has the keys and values it had
\* at the call, also after the caller has changed the dict that
\* compute_liquidity_signal returned, which is another object.
C8_InputUntouched ==
    \A w \in Procs :
        pc[w] # "idle"
        => /\ heap[call[w].arg] = call[w].snap
           /\ (IsCompute(w) /\ out[w].kind = "return") => out[w].ref # call[w].arg

C8_Witness ==
    \E w \in Procs :
        /\ IsCompute(w) /\ pc[w] = "edited"
        /\ heap[out[w].ref] # out[w].val
        /\ heap[call[w].arg] = call[w].snap

\* C9: whatever the threads interleave, each call's outcome is the one its
\* message has when processed alone, and equal messages have equal outcomes.
Outcomes ==
    hist \cup { [fn |-> call[w].fn, msg |-> call[w].snap, out |-> Outcome(w)] :
                w \in {v \in Procs : Finished(v)} }

C9_Stateless ==
    /\ \A w \in Procs :
          (IsCompute(w) /\ Finished(w)) => Outcome(w) = ComputeAlone(call[w].snap)
    /\ \A w \in Procs :
          (IsValidate(w) /\ Finished(w))
          => Outcome(w) = IF schema[call[w].snap]
                          THEN [kind |-> "return", val |-> call[w].snap]
                          ELSE [kind |-> "raise",
                                val  |-> [type |-> "ValueError",
                                          args |-> <<Text("Invalid message format")>>]]
    /\ \A x, y \in Outcomes : (x.fn = y.fn /\ x.msg = y.msg) => x.out = y.out

C9_Witness ==
    /\ IsCompute("w1") /\ pc["w1"] = "returned"
    /\ IsCompute("w2") /\ pc["w2"] = "raised"
    /\ call["w1"].snap # call["w2"].snap
    /\ log[Len(log)].level = "DEBUG" /\ Len(log[Len(log)].args) = 2

\* C10: the stored liquidity_score is the score rounded to 4 decimals: a
\* multiple of 0.0001 within 0.00005 of avg_volume / 10^6 + turnover_ratio,
\* and when the score lies exactly halfway the neighbour with the even fourth
\* decimal; 1.5 + 0.33333 is stored as 1.8333.
ExactTie(w) ==
    /\ DecimalScore(w) % 100 = 50
    /\ RatioIsExact(DecimalScore(w), Million)
    /\ locals[w].score = FromRatio(DecimalScore(w), Million)

C10_Rounding ==
    \A w \in Procs :
        (IsCompute(w) /\ pc[w] = "returned")
        => LET v == StoredScore(w).v
               s == DecimalScore(w)
           IN /\ StoredScore(w).t = "float"
              /\ v % 100 = 0
              /\ v - s <= 50 /\ s - v <= 50
              /\ ExactTie(w) => (v \div 100) % 2 = 0
              /\ (locals[w].avg_volume = 1500000 /\ s = 1833330) => v = 1833300

C10_Witness ==
    \E w \in Procs :
        /\ IsCompute(w) /\ pc[w] = "returned"
        /\ ExactTie(w)
        /\ DecimalScore(w) = 1093750
        /\ StoredScore(w) = PyFloat(1093800)
====
